---- MODULE Spec2Model ----
(***************************************************************************)
(* Model of generate_gf7_splits.py: the seeded labeled/unlabeled           *)
(* partitioner and the linear manifest-writing pipeline of main().         *)
(*                                                                         *)
(* Image identifiers are modelled by their rank in lexicographic order     *)
(* (the file names of one directory are pairwise distinct), so a directory *)
(* holding n .tif files is the set 1..n.                                   *)
(***************************************************************************)
EXTENDS Integers, Sequences, FiniteSets, TLC

\* ------------------------------------------------------------- bounds
MaxTrain == 66      \* most .tif files in Train/image (runs whose disk may fail)
MaxLarge == 208     \* most .tif files in Train/image (runs on a sound disk)
MaxOther == 1       \* most .tif files in Val/image and in Test/image
MaxRng == 0         \* generator states a process may start in: 0..MaxRng
MaxPartial == 1     \* most lines that reach the disk when a write fails
MaxLen == 4         \* longest list a caller hands the partitioner directly
MaxCalls == 2       \* most recorded calls of a caller that calls the partitioner directly

\* ------------------------------------------------------------- constants
SEED == 42
SmallDivisor == 100
Ratios == {4, 8, 16, 32, 64}
RatioOrder == <<32, 64, 16, 8, 4>>     \* the order main() calls the partitioner in
SmallOrder == <<32, 64>>               \* the ratios that get a "small" variant
Partitions == {"Train", "Val", "Test"}

VARIABLES
    pc,              \* position of main(): [step, r]
    fs,              \* input layout: fs[p] = [exists, tifs] for <base>/<p>/image
    rng,             \* state of the process-wide generator of module random
    train_images, val_images, test_images,
    labeled, unlabeled,              \* labeled[r], unlabeled[r]: labeled_32, ...
    small_labeled, small_unlabeled,  \* small_labeled[r]: small_labeled_32, ...
    calls,           \* history: one record per call of the partitioner
    dirs,            \* output directories that exist
    created,         \* manifests that exist on disk
    files,           \* files[m]: the lines of manifest m
    failed           \* the manifest whose step raised, or NoFailure

vars == <<pc, fs, rng, train_images, val_images, test_images, labeled, unlabeled,
          small_labeled, small_unlabeled, calls, dirs, created, files, failed>>

\* ------------------------------------------------------------- helpers
Min(a, b) == IF a < b THEN a ELSE b
Max(a, b) == IF a > b THEN a ELSE b
Range(s) == {s[i] : i \in 1..Len(s)}
Prefix(s, n) == SubSeq(s, 1, Min(n, Len(s)))          \* Python s[:n], n >= 0
Suffix(s, n) == SubSeq(s, Min(n, Len(s)) + 1, Len(s)) \* Python s[n:], n >= 0
IsPrefixOf(s, t) == Len(s) <= Len(t) /\ s = SubSeq(t, 1, Len(s))
NoDuplicates(s) == \A i, j \in 1..Len(s) : s[i] = s[j] => i = j

\* ------------------------------------------------------------- module random
\* The library generator is modelled as a 16-bit linear congruential generator;
\* seed(), getrandbits(), _randbelow() and shuffle() follow CPython's algorithms.
RngModulus == 65536
RngMultiplier == 25173
RngIncrement == 13849
RngBits == 16

Pow2(k) == 2 ^ k

RECURSIVE bit_length(_)
bit_length(n) == IF n = 0 THEN 0 ELSE 1 + bit_length(n \div 2)

\* (variant: the call to random.seed is lost, the stream is carried forward)
seed_carried(state, a) == state

\* random.seed(a): the state becomes a function of a alone.
seed(state, a) == a % RngModulus

RngStep(state) == (RngMultiplier * state + RngIncrement) % RngModulus

\* getrandbits(k): advance once, return the top k bits.
getrandbits(state, k) ==
    LET s2 == RngStep(state)
    IN  [value |-> s2 \div Pow2(RngBits - k), state |-> s2]

\* _randbelow_with_getrandbits(n): rejection sampling.
RECURSIVE randbelow_loop(_, _, _)
randbelow_loop(state, n, k) ==
    LET d == getrandbits(state, k)
    IN  IF d.value < n THEN d ELSE randbelow_loop(d.state, n, k)

randbelow(state, n) == randbelow_loop(state, n, bit_length(n))

\* (variant: x[i] = x[j] without the exchange)
Swap_overwrite(x, i, j) == [x EXCEPT ![i] = x[j]]

\* x[i], x[j] = x[j], x[i]  (1-based positions)
Swap(x, i, j) == [x EXCEPT ![i] = x[j], ![j] = x[i]]

\* random.shuffle(x): for i in reversed(range(1, len(x))): j = randbelow(i + 1); swap.
\* a.i is the 1-based position of Python's x[i]; a.list and a.state are the list and
\* the generator state when that iteration starts. shuffle_steps runs the iterations
\* a.i, a.i - 1, ..., a.stop + 1; shuffle_loop runs the whole loop, ChunkLen
\* iterations at a time (which only keeps the evaluation shallow).
ChunkLen == 4 * 4
ShuffleArgs == [list : Seq(Int), i : Nat, stop : Nat, state : Nat]

shuffle_steps[a \in ShuffleArgs] ==
    IF a.i <= a.stop THEN [list |-> a.list, state |-> a.state]
    ELSE LET d == randbelow(a.state, a.i)
         IN  shuffle_steps[[list |-> Swap(a.list, a.i, d.value + 1),
                            i |-> a.i - 1, stop |-> a.stop, state |-> d.state]]

shuffle_loop[a \in ShuffleArgs] ==
    IF a.i < 2 THEN [list |-> a.list, state |-> a.state]
    ELSE LET part == shuffle_steps[[a EXCEPT !.stop = Max(1, a.i - ChunkLen)]]
         IN  shuffle_loop[[list |-> part.list, i |-> Max(1, a.i - ChunkLen),
                           stop |-> 0, state |-> part.state]]

shuffle(x, state) == shuffle_loop[[list |-> x, i |-> Len(x), stop |-> 0, state |-> state]]

\* ------------------------------------------------------------- the program
MaxName == Max(Max(MaxTrain, MaxLarge), MaxOther)     \* the largest file name in use

\* (variant: a missing directory falls back to the Train listing)
get_image_files_fallback(p) ==
    SelectSeq([i \in 1..MaxName |-> i],
              LAMBDA i : i \in fs[IF fs[p].exists THEN p ELSE "Train"].tifs)

\* sorted([f.name for f in image_dir.glob("*.tif")]), or [] for a missing directory
get_image_files(p) ==
    IF ~fs[p].exists THEN <<>>
    ELSE SelectSeq([i \in 1..MaxName |-> i], LAMBDA i : i \in fs[p].tifs)

\* "{split}/image/{image_name} {split}/label/{image_name}"
create_split_line(image_name, split) ==
    <<split, "image", image_name, split, "label", image_name>>

\* (variant: round(len(shuffled) / ratio), halves up)
num_labeled_round(n, ratio) == (2 * n + ratio) \div (2 * ratio)
\* (variant: ceiling division)
num_labeled_ceil(n, ratio) == (n + ratio - 1) \div ratio

\* num_labeled = len(shuffled) // ratio
num_labeled(n, ratio) == n \div ratio

\* labeled = shuffled[:num_labeled]; unlabeled = shuffled[num_labeled:]
SplitAt(shuffled, k) == [labeled |-> Prefix(shuffled, k), unlabeled |-> Suffix(shuffled, k)]

\* generate_labeled_unlabeled_split(all_images, ratio): the returned pair, the
\* caller's list after the call, and the generator state after the call.
generate_labeled_unlabeled_split(all_images, ratio, state) ==
    LET seeded   == seed(state, SEED)
        shuffled == all_images                 \* all_images.copy()
        sh       == shuffle(shuffled, seeded)
        cut      == SplitAt(sh.list, num_labeled(Len(sh.list), ratio))
    IN  [labeled |-> cut.labeled, unlabeled |-> cut.unlabeled,
         all_images |-> all_images, state |-> sh.state]


\* (variant: x[:len(x) // 100], the max(1, ...) lost)
Truncate_nomax(x) == Prefix(x, Len(x) \div SmallDivisor)
\* (variant: x[-max(1, len(x) // 100):], the tail instead of the head)
Truncate_tail(x) == Suffix(x, Len(x) - Min(Len(x), Max(1, Len(x) \div SmallDivisor)))

\* small_x = x[:max(1, len(x) // 100)]
Truncate(x) == Prefix(x, Max(1, Len(x) \div SmallDivisor))

\* ------------------------------------------------------------- output layout
DirName(r) ==
    CASE r = 4 -> "1_4" [] r = 8 -> "1_8" [] r = 16 -> "1_16"
      [] r = 32 -> "1_32" [] r = 64 -> "1_64"
SmallDirName(r) == CASE r = 32 -> "small_1_32" [] r = 64 -> "small_1_64"

ValFile  == <<".", "val.txt">>
TestFile == <<".", "test.txt">>
AllFile  == <<"all", "labeled.txt">>
LabeledFile(r)   == <<DirName(r), "labeled.txt">>
UnlabeledFile(r) == <<DirName(r), "unlabeled.txt">>
SmallLabeledFile(r)   == <<SmallDirName(r), "labeled.txt">>
SmallUnlabeledFile(r) == <<SmallDirName(r), "unlabeled.txt">>

\* labeled.txt then unlabeled.txt of each split directory, in the order of the ratios
SplitFiles(order) ==
    [i \in 1..(2 * Len(order)) |->
        IF i % 2 = 1 THEN LabeledFile(order[(i + 1) \div 2])
        ELSE UnlabeledFile(order[i \div 2])]
SmallFiles(order) ==
    [i \in 1..(2 * Len(order)) |->
        IF i % 2 = 1 THEN SmallLabeledFile(order[(i + 1) \div 2])
        ELSE SmallUnlabeledFile(order[i \div 2])]

\* the manifests in the order main() writes them
WriteOrder ==
    <<ValFile, TestFile, AllFile>> \o SplitFiles(RatioOrder) \o SmallFiles(SmallOrder)

Manifests == Range(WriteOrder)
Pos(m) == CHOOSE i \in 1..Len(WriteOrder) : WriteOrder[i] = m
NoFailure == <<"", "">>

\* for img in images: f.write(create_split_line(img, split) + "\n")
Lines(images, split) == [i \in 1..Len(images) |-> create_split_line(images[i], split)]

\* ------------------------------------------------------------- control flow of main()
S(step, r) == [step |-> step, r |-> r]

RECURSIVE RatioSteps(_, _)
RatioSteps(order, names) ==
    IF order = <<>> THEN <<>>
    ELSE [i \in 1..Len(names) |-> S(names[i], Head(order))] \o RatioSteps(Tail(order), names)

Program ==
    <<S("mkdir_out", 0), S("get_train", 0), S("get_val", 0), S("get_test", 0),
      S("write_val", 0), S("write_test", 0), S("write_all", 0)>>
        \o RatioSteps(RatioOrder, <<"split", "write_labeled", "write_unlabeled">>)
        \o RatioSteps(SmallOrder, <<"small", "write_small_labeled", "write_small_unlabeled">>)
        \o <<S("done", 0)>>

After(p) == Program[(CHOOSE i \in 1..Len(Program) : Program[i] = p) + 1]
Aborted == S("aborted", 0)

\* (variant: the exception is swallowed and main() goes on)
OnFatal_swallowed(next) == next

\* An exception raised inside main() is caught nowhere: the process ends.
OnFatal(next) == Aborted

\* ------------------------------------------------------------- initial states
DirStates(cap) ==
    {[exists |-> FALSE, tifs |-> {}]} \cup {[exists |-> TRUE, tifs |-> 1..n] : n \in 0..cap}

Blank ==
    /\ val_images = <<>> /\ test_images = <<>>
    /\ labeled = [r \in Ratios |-> <<>>]
    /\ unlabeled = [r \in Ratios |-> <<>>]
    /\ small_labeled = [r \in Range(SmallOrder) |-> <<>>]
    /\ small_unlabeled = [r \in Range(SmallOrder) |-> <<>>]
    /\ calls = {}
    /\ dirs = {} /\ created = {}
    /\ files = [m \in Manifests |-> <<>>]
    /\ failed = NoFailure

\* A fresh process about to run main(): any input layout, nothing written yet.
Init ==
    /\ pc = Program[1]
    /\ \E t \in DirStates(MaxTrain), v \in DirStates(MaxOther), e \in DirStates(MaxOther) :
          fs = [p \in Partitions |-> IF p = "Train" THEN t ELSE IF p = "Val" THEN v ELSE e]
    /\ rng \in 0..MaxRng
    /\ train_images = <<>>
    /\ Blank

\* The same with a larger Train partition and full Val and Test partitions.
InitLarge ==
    /\ pc = Program[1]
    /\ \E n \in 0..MaxLarge :
          fs = [p \in Partitions |->
                  [exists |-> TRUE, tifs |-> IF p = "Train" THEN 1..n ELSE 1..MaxOther]]
    /\ rng \in 0..MaxRng
    /\ train_images = <<>>
    /\ Blank

\* A caller that holds a list of n distinct identifiers (ranks 1..n), in any order,
\* and calls the partitioner directly.
Harness == S("harness", 0)
InitPart ==
    /\ pc = Harness
    /\ fs = [p \in Partitions |-> [exists |-> FALSE, tifs |-> {}]]
    /\ rng \in 0..MaxRng
    /\ train_images \in {x \in UNION {[1..n -> 1..n] : n \in 0..MaxLen} : NoDuplicates(x)}
    /\ Blank

\* ------------------------------------------------------------- actions of main()
\* output_dir.mkdir(parents=True, exist_ok=True)
MkOutputDir ==
    /\ pc = S("mkdir_out", 0)
    /\ dirs' = dirs \cup {"."}
    /\ pc' = After(pc)
    /\ UNCHANGED <<fs, rng, train_images, val_images, test_images, labeled, unlabeled,
                   small_labeled, small_unlabeled, calls, created, files, failed>>

GetTrain ==
    /\ pc = S("get_train", 0)
    /\ train_images' = get_image_files("Train")
    /\ pc' = After(pc)
    /\ UNCHANGED <<fs, rng, val_images, test_images, labeled, unlabeled,
                   small_labeled, small_unlabeled, calls, dirs, created, files, failed>>

GetVal ==
    /\ pc = S("get_val", 0)
    /\ val_images' = get_image_files("Val")
    /\ pc' = After(pc)
    /\ UNCHANGED <<fs, rng, train_images, test_images, labeled, unlabeled,
                   small_labeled, small_unlabeled, calls, dirs, created, files, failed>>

GetTest ==
    /\ pc = S("get_test", 0)
    /\ test_images' = get_image_files("Test")
    /\ pc' = After(pc)
    /\ UNCHANGED <<fs, rng, train_images, val_images, labeled, unlabeled,
                   small_labeled, small_unlabeled, calls, dirs, created, files, failed>>

\* d.mkdir(exist_ok=True); with open(m, "w") as f: for img in images: f.write(...)
\* open(m, "w") creates the file or empties it; the lines replace what it held.
Write(m, images, split) ==
    /\ dirs' = dirs \cup {m[1]}
    /\ created' = created \cup {m}
    /\ files' = [files EXCEPT ![m] = Lines(images, split)]
    /\ pc' = After(pc)
    /\ UNCHANGED <<fs, rng, train_images, val_images, test_images, labeled, unlabeled,
                   small_labeled, small_unlabeled, calls, failed>>

WriteVal  == pc = S("write_val", 0)  /\ Write(ValFile, val_images, "Val")
WriteTest == pc = S("write_test", 0) /\ Write(TestFile, test_images, "Test")
WriteAll  == pc = S("write_all", 0)  /\ Write(AllFile, train_images, "Train")

\* labeled_r, unlabeled_r = generate_labeled_unlabeled_split(train_images, r, "Train")
CallPartitioner(r) ==
    /\ LET res == generate_labeled_unlabeled_split(train_images, r, rng)
       IN  /\ labeled' = [labeled EXCEPT ![r] = res.labeled]
           /\ unlabeled' = [unlabeled EXCEPT ![r] = res.unlabeled]
           /\ train_images' = res.all_images
           /\ rng' = res.state
           /\ calls' = calls \cup {[ratio |-> r, before |-> rng, after |-> res.state,
                                    kept |-> (res.all_images = train_images),
                                    labeled |-> res.labeled, unlabeled |-> res.unlabeled]}
    /\ UNCHANGED <<fs, val_images, test_images, small_labeled, small_unlabeled,
                   dirs, created, files, failed>>

Split(r) ==
    /\ pc = S("split", r)
    /\ CallPartitioner(r)
    /\ pc' = After(pc)

WriteLabeled(r) ==
    pc = S("write_labeled", r) /\ Write(LabeledFile(r), labeled[r], "Train")
WriteUnlabeled(r) ==
    pc = S("write_unlabeled", r) /\ Write(UnlabeledFile(r), unlabeled[r], "Train")

\* small_labeled_r = labeled_r[:max(1, len(labeled_r) // 100)], the same for unlabeled_r
Small(r) ==
    /\ pc = S("small", r)
    /\ small_labeled' = [small_labeled EXCEPT ![r] = Truncate(labeled[r])]
    /\ small_unlabeled' = [small_unlabeled EXCEPT ![r] = Truncate(unlabeled[r])]
    /\ pc' = After(pc)
    /\ UNCHANGED <<fs, rng, train_images, val_images, test_images, labeled, unlabeled,
                   calls, dirs, created, files, failed>>

WriteSmallLabeled(r) ==
    pc = S("write_small_labeled", r)
        /\ Write(SmallLabeledFile(r), small_labeled[r], "Train")
WriteSmallUnlabeled(r) ==
    pc = S("write_small_unlabeled", r)
        /\ Write(SmallUnlabeledFile(r), small_unlabeled[r], "Train")

\* ------------------------------------------------------------- failing steps
\* The write main() is about to do: the manifest, the identifiers and their partition.
W(m, images, split) == [m |-> m, images |-> images, split |-> split]
WriteSteps ==
    {"write_val", "write_test", "write_all", "write_labeled", "write_unlabeled",
     "write_small_labeled", "write_small_unlabeled"}
Pending ==
    CASE pc.step = "write_val"  -> W(ValFile, val_images, "Val")
      [] pc.step = "write_test" -> W(TestFile, test_images, "Test")
      [] pc.step = "write_all"  -> W(AllFile, train_images, "Train")
      [] pc.step = "write_labeled"   -> W(LabeledFile(pc.r), labeled[pc.r], "Train")
      [] pc.step = "write_unlabeled" -> W(UnlabeledFile(pc.r), unlabeled[pc.r], "Train")
      [] pc.step = "write_small_labeled" ->
            W(SmallLabeledFile(pc.r), small_labeled[pc.r], "Train")
      [] pc.step = "write_small_unlabeled" ->
            W(SmallUnlabeledFile(pc.r), small_unlabeled[pc.r], "Train")

\* output_dir.mkdir(...) raises: nothing was created.
MkOutputDirRaises ==
    /\ pc = S("mkdir_out", 0)
    /\ failed' = ValFile
    /\ pc' = OnFatal(After(pc))
    /\ UNCHANGED <<fs, rng, train_images, val_images, test_images, labeled, unlabeled,
                   small_labeled, small_unlabeled, calls, dirs, created, files>>

\* d.mkdir(exist_ok=True) raises for a directory that does not exist yet.
MkdirRaises ==
    /\ pc.step \in WriteSteps
    /\ Pending.m[1] \notin dirs
    /\ failed' = Pending.m
    /\ pc' = OnFatal(After(pc))
    /\ UNCHANGED <<fs, rng, train_images, val_images, test_images, labeled, unlabeled,
                   small_labeled, small_unlabeled, calls, dirs, created, files>>

\* open(m, "w") raises: the directory is there, the file is as it was.
OpenRaises ==
    /\ pc.step \in WriteSteps
    /\ dirs' = dirs \cup {Pending.m[1]}
    /\ failed' = Pending.m
    /\ pc' = OnFatal(After(pc))
    /\ UNCHANGED <<fs, rng, train_images, val_images, test_images, labeled, unlabeled,
                   small_labeled, small_unlabeled, calls, created, files>>

\* f.write(...) or the closing flush raises: the file was emptied by open() and
\* holds the lines that reached the disk before the failure.
WriteRaises ==
    /\ pc.step \in WriteSteps
    /\ LET w == Pending
           lines == Lines(w.images, w.split)
       IN  /\ \E k \in 0..Min(MaxPartial, Len(lines)) :
                 files' = [files EXCEPT ![w.m] = Prefix(lines, k)]
           /\ dirs' = dirs \cup {w.m[1]}
           /\ created' = created \cup {w.m}
           /\ failed' = w.m
    /\ pc' = OnFatal(After(pc))
    /\ UNCHANGED <<fs, rng, train_images, val_images, test_images, labeled, unlabeled,
                   small_labeled, small_unlabeled, calls>>

\* ------------------------------------------------------------- direct callers
\* generate_labeled_unlabeled_split(all_images, r) called on its own, in any order.
Call(r) ==
    /\ pc = Harness
    /\ Cardinality(calls) < MaxCalls
    /\ CallPartitioner(r)
    /\ UNCHANGED pc

\* Other code of the process uses module random and leaves the generator anywhere.
OtherRandomUse ==
    /\ pc = Harness
    /\ \E s \in 0..MaxRng : rng' = s
    /\ rng' # rng
    /\ UNCHANGED <<pc, fs, train_images, val_images, test_images, labeled, unlabeled,
                   small_labeled, small_unlabeled, calls, dirs, created, files, failed>>

\* the ratios the partitioner has returned for
Called == {c.ratio : c \in calls}

\* ------------------------------------------------------------- specifications
NextOk ==
    \/ MkOutputDir
    \/ GetTrain
    \/ GetVal
    \/ GetTest
    \/ WriteVal
    \/ WriteTest
    \/ WriteAll
    \/ \E r \in Ratios : Split(r)
    \/ \E r \in Ratios : WriteLabeled(r)
    \/ \E r \in Ratios : WriteUnlabeled(r)
    \/ \E r \in Range(SmallOrder) : Small(r)
    \/ \E r \in Range(SmallOrder) : WriteSmallLabeled(r)
    \/ \E r \in Range(SmallOrder) : WriteSmallUnlabeled(r)

NextRaises ==
    \/ MkOutputDirRaises
    \/ MkdirRaises
    \/ OpenRaises
    \/ WriteRaises

Next == NextOk \/ NextRaises

NextPart ==
    \/ \E r \in Ratios : Call(r)
    \/ OtherRandomUse

\* main() on a disk where any step that touches it may raise
Spec == Init /\ [][Next]_vars

\* main() on a sound disk, with a larger Train partition
SpecLarge == InitLarge /\ [][NextOk]_vars

\* the partitioner called directly
SpecPart == InitPart /\ [][NextPart]_vars

\* ------------------------------------------------------------- properties
Done == S("done", 0)
Idx(p) == CHOOSE i \in 1..Len(Program) : Program[i] = p
\* main() has completed step (step, r)
Past(step, r) == pc \in Range(Program) /\ Idx(pc) > Idx(S(step, r))
N == Len(train_images)
Distinct(s) == Cardinality(Range(s)) = Len(s)

\* C1: for every Train sequence of size N and every ratio r the partitioner has
\* returned for, |labeled| = floor(N / r) and |unlabeled| = N - |labeled|.
C1_SplitSizes ==
    \A r \in Called :
        /\ Len(labeled[r]) = N \div r
        /\ Len(unlabeled[r]) = N - Len(labeled[r])

\* all five ratios returned, and floor(N / 64) rounded down to a non-zero size
C1_Witness ==
    /\ Called = Ratios
    /\ N % 64 # 0
    /\ Len(labeled[64]) = 1 /\ Len(labeled[4]) > 1
    /\ Len(unlabeled[64]) = N - 1

\* C2: for an input of pairwise-distinct identifiers, labeled and unlabeled are
\* disjoint, hold no duplicates, and together hold exactly the input identifiers.
C2_Partition ==
    \A r \in Called :
        Distinct(train_images) =>
            /\ Distinct(labeled[r] \o unlabeled[r])
            /\ Range(labeled[r]) \cap Range(unlabeled[r]) = {}
            /\ Range(labeled[r]) \cup Range(unlabeled[r]) = Range(train_images)

\* both halves non-empty and the order really shuffled
C2_Witness ==
    \E r \in Called :
        /\ Len(labeled[r]) > 1 /\ Len(unlabeled[r]) > 1
        /\ labeled[r] \o unlabeled[r] # train_images

\* C3: whatever the generator state before a call and whatever calls came earlier,
\* two calls with the same input and the same ratio return the same pair.
C3_Deterministic ==
    \A c1, c2 \in calls :
        c1.ratio = c2.ratio => c1.labeled = c2.labeled /\ c1.unlabeled = c2.unlabeled

\* the same ratio called from two different generator states, labeled non-empty
C3_Witness ==
    \E c1, c2 \in calls :
        /\ c1.ratio = c2.ratio /\ c1.before # c2.before
        /\ c1.labeled # <<>> /\ Len(c1.unlabeled) > 1

\* C4: a call leaves the caller's list and the process-wide generator as they were.
C4_Pure == \A c \in calls : c.kept /\ c.after = c.before

\* C5 as stated: every small sequence has max(1, floor(count / 100)) elements,
\* count being the length of its parent, for every Train size.
C5_Original ==
    \A r \in Range(SmallOrder) :
        Past("small", r) =>
            /\ Len(small_labeled[r]) = Max(1, Len(labeled[r]) \div 100)
            /\ Len(small_unlabeled[r]) = Max(1, Len(unlabeled[r]) \div 100)

SmallSizeOk(small, parent) ==
    IF Len(parent) = 0 THEN Len(small) = 0
    ELSE Len(small) = Max(1, Len(parent) \div 100)

\* C5 amended: a small sequence has max(1, floor(count / 100)) elements when its
\* parent is non-empty, and is empty when its parent is empty.
C5_SmallSizes ==
    \A r \in Range(SmallOrder) :
        Past("small", r) =>
            /\ SmallSizeOk(small_labeled[r], labeled[r])
            /\ SmallSizeOk(small_unlabeled[r], unlabeled[r])

\* floor(count / 100) decides the size (2), and max(1, .) decides it (1 from 0)
C5_Witness ==
    /\ Past("small", 32)
    /\ Len(unlabeled[32]) >= 200 /\ Len(small_unlabeled[32]) = 2
    /\ Len(labeled[32]) \in 1..99 /\ Len(small_labeled[32]) = 1

\* C6: each small sequence is a prefix of its parent from the same call of the
\* partitioner, so small labeled and small unlabeled share no identifier.
C6_SmallPrefix ==
    \A r \in Range(SmallOrder) :
        Past("small", r) =>
            /\ IsPrefixOf(small_labeled[r], labeled[r])
            /\ IsPrefixOf(small_unlabeled[r], unlabeled[r])
            /\ \E c \in calls :
                  c.ratio = r /\ c.labeled = labeled[r] /\ c.unlabeled = unlabeled[r]
            /\ Range(small_labeled[r]) \cap Range(small_unlabeled[r]) = {}

\* both small sequences of ratio 64 are proper, non-empty prefixes
C6_Witness ==
    /\ Past("small", 64)
    /\ Len(small_labeled[64]) = 1 /\ Len(labeled[64]) > 1
    /\ Len(small_unlabeled[64]) = 2 /\ Len(unlabeled[64]) > 2

\* C7 as stated: r >= N gives an empty labeled and the full input as unlabeled.
C7_Original ==
    \A r \in Called :
        r >= N =>
            /\ labeled[r] = <<>>
            /\ Len(unlabeled[r]) = N
            /\ Range(unlabeled[r]) = Range(train_images)

\* C7 amended: r > N gives an empty labeled and the full input as unlabeled
\* (r = N gives one labeled identifier); N = 0 gives both empty.
C7_RatioAboveSize ==
    \A r \in Called :
        r > N =>
            /\ labeled[r] = <<>>
            /\ Len(unlabeled[r]) = N
            /\ Range(unlabeled[r]) = Range(train_images)

\* a non-empty Train partition smaller than a ratio the partitioner returned for
C7_Witness ==
    \E r \in Called : N > 1 /\ r > N /\ Len(unlabeled[r]) = N /\ 4 \in Called /\ 4 < N

DerivedFrom(p) ==
    IF p = "Val" THEN {ValFile} ELSE IF p = "Test" THEN {TestFile}
    ELSE Manifests \ {ValFile, TestFile}
Images(p) ==
    IF p = "Val" THEN val_images ELSE IF p = "Test" THEN test_images ELSE train_images
GetStep(p) == IF p = "Val" THEN "get_val" ELSE IF p = "Test" THEN "get_test" ELSE "get_train"

\* what C8 says of every state, apart from the number of manifests: a missing
\* partition directory enumerates as empty, and at the end of main() every manifest
\* is written, those derived from a missing partition empty, val.txt, test.txt and
\* all/labeled.txt with one line per .tif file of their partition.
MissingDirsHandled ==
    /\ \A p \in Partitions : Past(GetStep(p), 0) /\ ~fs[p].exists => Images(p) = <<>>
    /\ pc = Done =>
          /\ created = Manifests
          /\ failed = NoFailure
          /\ \A p \in Partitions : ~fs[p].exists => \A m \in DerivedFrom(p) : files[m] = <<>>
          /\ Len(files[ValFile]) = Cardinality(fs["Val"].tifs)
          /\ Len(files[TestFile]) = Cardinality(fs["Test"].tifs)
          /\ Len(files[AllFile]) = Cardinality(fs["Train"].tifs)

\* main() goes on: short of its end it has a next step that does not raise. (The
\* split steps are looked at for a missing Train directory, where the partitioner
\* is handed the empty enumeration.)
Continues ==
    (pc \notin {Done, Aborted} /\ (pc.step = "split" => ~fs["Train"].exists))
        => ENABLED NextOk

\* C8 as stated: the manifests written at the end of main() are 15.
C8_Original ==
    MissingDirsHandled /\ Continues /\ (pc = Done => Cardinality(created) = 15)

\* C8 amended: whichever partition directories are missing, main() goes on to its
\* end, and the manifests written are 17 (val.txt, test.txt, all/labeled.txt, and
\* labeled.txt and unlabeled.txt in each of the seven split directories), those
\* derived from a missing partition empty.
C8_MissingDirs ==
    MissingDirsHandled /\ Continues /\ (pc = Done => Cardinality(created) = 17)

\* main() completed with Train missing and Val holding a file
C8_Witness ==
    /\ pc = Done
    /\ ~fs["Train"].exists /\ fs["Val"].exists /\ ~fs["Test"].exists
    /\ files[ValFile] # <<>> /\ files[AllFile] = <<>>

\* the lines main() hands the writer for manifest m
Intended(m) ==
    IF m = ValFile THEN Lines(val_images, "Val")
    ELSE IF m = TestFile THEN Lines(test_images, "Test")
    ELSE IF m = AllFile THEN Lines(train_images, "Train")
    ELSE IF \E r \in Ratios : m = LabeledFile(r)
         THEN Lines(labeled[CHOOSE r \in Ratios : m = LabeledFile(r)], "Train")
    ELSE IF \E r \in Ratios : m = UnlabeledFile(r)
         THEN Lines(unlabeled[CHOOSE r \in Ratios : m = UnlabeledFile(r)], "Train")
    ELSE IF \E r \in Range(SmallOrder) : m = SmallLabeledFile(r)
         THEN Lines(small_labeled[CHOOSE r \in Range(SmallOrder) : m = SmallLabeledFile(r)],
                    "Train")
    ELSE Lines(small_unlabeled[CHOOSE r \in Range(SmallOrder) : m = SmallUnlabeledFile(r)],
               "Train")

\* C9: once the step of a manifest has raised, main() is over (no later step, no
\* retry): no manifest later in the write order exists, and every earlier one is in
\* place with the lines written to it.
C9_AbortOnFailure ==
    failed # NoFailure =>
        /\ pc = Aborted
        /\ \A m \in Manifests :
              /\ Pos(m) > Pos(failed) => m \notin created /\ files[m] = <<>>
              /\ Pos(m) < Pos(failed) => m \in created /\ files[m] = Intended(m)

\* a write failed half way through the run, leaving a truncated manifest
C9_Witness ==
    /\ failed = UnlabeledFile(16)
    /\ failed \in created
    /\ Len(files[failed]) = 1 /\ Len(unlabeled[16]) > 1
    /\ files[LabeledFile(16)] # <<>>

\* C10: for ratios r1 < r2 the labeled sequence of r2 is a prefix of that of r1,
\* and labeled followed by unlabeled is the same sequence for every ratio.
C10_Nested ==
    \A r1, r2 \in Called :
        r1 < r2 =>
            /\ IsPrefixOf(labeled[r2], labeled[r1])
            /\ labeled[r1] \o unlabeled[r1] = labeled[r2] \o unlabeled[r2]

\* all five splits made of a Train partition large enough for each to be proper
C10_Witness ==
    /\ Called = Ratios
    /\ Len(labeled[64]) >= 1
    /\ Len(labeled[32]) > Len(labeled[64])
    /\ Len(labeled[4]) > Len(labeled[8])

====
